---------------------------- MODULE Spec2Model ----------------------------
(***************************************************************************)
(* HD44780U character LCD device of msim (src/src/device/dlcd.c).          *)
(*                                                                         *)
(* The device is a state machine driven by the bus: dlcd_init builds the   *)
(* controller state, lcd_write32 handles one register write to completion  *)
(* (latch, falling-edge detection, command decoding, state change, and     *)
(* printing of the frame).  The handlers are written as operators over the *)
(* lcd_data_t record, named as in the source.                              *)
(*                                                                         *)
(* Behaviour the C standard leaves undefined (a store or a load outside    *)
(* the buffer, a remainder by zero, a read of a member that was never      *)
(* written) is a choice: the handlers take a record u of arbitrary values  *)
(* for what such an expression yields and report ub = TRUE, and the action *)
(* then either ends the process or goes on with those values.              *)
(***************************************************************************)
EXTENDS Integers, Sequences, FiniteSets, TLC

VARIABLES
    status,    \* "unconfigured" | "ready" | "rejected" | "crashed"
    lcd,       \* the lcd_data_t of the device
    out,       \* frames printed by the last register write (<<>> or <<frame>>)
    executed,  \* what the last register write executed
    pre,       \* cursor and buffer blankness before the last register write
    run,       \* display-shift-right bytes executed in a row (saturating)
    progress,  \* writes of the example scenario matched so far, or -1
    trip,      \* set address / write data / set address again, as far as seen
    parm,      \* the parameters dlcd_init was called with
    armed,     \* a control write with enable set was made since dlcd_init
    host       \* what the bus master writes: values, geometries, write budget

vars == <<status, lcd, out, executed, pre, run, progress, trip, parm, armed, host>>

-----------------------------------------------------------------------------
(* Program constants                                                       *)

REGISTER_DATA == 0
REGISTER_CONTROL == 1
REGISTER_LIMIT == 4
LCD_MAX_ROWS == 4
LCD_MAX_COLS == 40
LCD_CMD_CLEAR == 1
LCD_CMD_HOME == 2
LCD_SET_CURSOR_MASK == 127
LCD_SET_CURSOR_CMD == 128
LCD_CMD_ENTRY_MODE_BASE == 4
LCD_CMD_DISPLAY_CONTROL_BASE == 8
LCD_CMD_FUNCTION_SET_BASE == 32
LCD_CMD_SHIFT_BASE == 16

\* row_addr_map[i], i = 0..3
row_addr_map(i) ==
    CASE i = 0 -> 0
      [] i = 1 -> 64
      [] i = 2 -> 20
      [] i = 3 -> 84

\* The character printed for an empty or hidden cell
Blank == 32

-----------------------------------------------------------------------------
(* C arithmetic                                                            *)

RECURSIVE BitAnd(_, _)
BitAnd(a, b) ==
    IF a = 0 \/ b = 0 THEN 0
    ELSE (a % 2) * (b % 2) + 2 * BitAnd(a \div 2, b \div 2)

\* (uint8_t) val
U8(val) == val % 256

\* a % b of C on ints: truncated towards zero; b = 0 is undefined (yields u)
CRem(a, b, u) ==
    IF b = 0 THEN u
    ELSE IF a >= 0 THEN a % b
    ELSE 0 - ((0 - a) % b)

\* lcd_reg_t overlaid on a written word: rs bit 0, rw bit 1, e bit 2
RegOfValue(val) ==
    [rs |-> BitAnd(val, 1) # 0,
     rw |-> BitAnd(val, 2) # 0,
     e  |-> BitAnd(val, 4) # 0,
     data |-> U8(val \div 256)]

-----------------------------------------------------------------------------
(* lcd_data_t                                                              *)

BufferIndexes(d) == 0 .. (d.rows * d.cols - 1)

\* the state before dlcd_init has run: no lcd_data_t exists
NoData ==
    [rows |-> 0, cols |-> 0, current_row |-> 0, current_col |-> 0,
     reg |-> RegOfValue(0), reg_prev |-> RegOfValue(0),
     buffer |-> [i \in {} |-> 0], addr |-> 0,
     display_on |-> FALSE, increment_mode |-> FALSE,
     display_shift_offset |-> 0, multi_line_mode |-> FALSE]

\* dlcd_init: the geometry checks; only the upper bounds are tested
GeometryAccepted(cols, rows) ==
    ~(cols > LCD_MAX_COLS) /\ ~(rows > LCD_MAX_ROWS)

\* dlcd_init: the lcd_data_t it builds; reg and reg_prev are not written
\* by it, so they hold whatever the allocation held (g, gp)
InitData(cols, rows, addr, g, gp) ==
    [rows |-> rows, cols |-> cols, current_row |-> 0, current_col |-> 0,
     reg |-> g, reg_prev |-> gp,
     buffer |-> [i \in 0 .. (rows * cols - 1) |-> 0], addr |-> addr,
     display_on |-> FALSE, increment_mode |-> TRUE,
     display_shift_offset |-> 0, multi_line_mode |-> FALSE]

\* The result of a handler: the new lcd_data_t and whether undefined
\* behaviour was executed on the way
Res(d, ub) == [lcd |-> d, ub |-> ub]


-----------------------------------------------------------------------------
(* Rendering                                                               *)

\* Mutant of PrintedCell: the zero byte is printed as it is
PrintedCell_raw(d, row, col, u) ==
    LET source_col == col + d.display_shift_offset
        index == row * d.cols + source_col
    IN  IF source_col >= 0 /\ source_col < d.cols
        THEN IF index \in BufferIndexes(d) THEN d.buffer[index] ELSE u.byte
        ELSE Blank

\* lcd_print: one printed cell of an active row
PrintedCell(d, row, col, u) ==
    LET source_col == col + d.display_shift_offset
        index == row * d.cols + source_col
    IN  IF source_col >= 0 /\ source_col < d.cols
        THEN LET c == IF index \in BufferIndexes(d) THEN d.buffer[index] ELSE u.byte
             IN  IF c = 0 THEN Blank ELSE c
        ELSE Blank

\* lcd_print: the load of an active row's cell falls outside the buffer
PrintReadsOutside(d, active_rows) ==
    \E row \in 0 .. (active_rows - 1), col \in 0 .. (d.cols - 1) :
        LET source_col == col + d.display_shift_offset
        IN  /\ source_col >= 0 /\ source_col < d.cols
            /\ (row * d.cols + source_col) \notin BufferIndexes(d)

\* lcd_print: the lines between the borders, top to bottom; line r+1 is
\* display row r and holds cols cells
lcd_print(d, u) ==
    LET blank_line == [c \in 1 .. d.cols |-> Blank]
    IN  IF ~d.display_on
        THEN [frame |-> [r \in 1 .. d.rows |-> blank_line], ub |-> FALSE]
        ELSE LET active_rows == IF d.multi_line_mode THEN d.rows ELSE 1
                 shown == [r \in 1 .. active_rows |->
                              [c \in 1 .. d.cols |-> PrintedCell(d, r - 1, c - 1, u)]]
                 rest == [r \in 1 .. (d.rows - active_rows) |-> blank_line]
             IN  [frame |-> shown \o rest,
                  ub |-> PrintReadsOutside(d, active_rows)]

-----------------------------------------------------------------------------
(* Cursor and addressing                                                   *)

\* ddram_addr_to_position: the rows whose range holds addr
MatchingRows(d, addr) ==
    {i \in 0 .. (d.rows - 1) :
        addr >= row_addr_map(i) /\ addr < row_addr_map(i) + LCD_MAX_COLS}

Min(S) == CHOOSE x \in S : \A y \in S : x <= y

\* Mutant of ddram_addr_to_position: the column is not clamped to the width
ddram_addr_to_position_unclamped(d, addr) ==
    IF MatchingRows(d, addr) = {}
    THEN [found |-> FALSE, row |-> 0, col |-> 0]
    ELSE LET i == Min(MatchingRows(d, addr))
         IN  [found |-> TRUE, row |-> i, col |-> addr - row_addr_map(i)]

Max(S) == CHOOSE x \in S : \A y \in S : x >= y

\* Mutant of ddram_addr_to_position: the loop does not stop at the first
\* matching row, the last one wins
ddram_addr_to_position_lastmatch(d, addr) ==
    IF MatchingRows(d, addr) = {}
    THEN [found |-> FALSE, row |-> 0, col |-> 0]
    ELSE LET i == Max(MatchingRows(d, addr))
             col == addr - row_addr_map(i)
         IN  [found |-> TRUE, row |-> i,
              col |-> IF col >= d.cols THEN d.cols - 1 ELSE col]

\* ddram_addr_to_position: found is the return value, row and col the
\* out-parameters (written only when found)
ddram_addr_to_position(d, addr) ==
    IF MatchingRows(d, addr) = {}
    THEN [found |-> FALSE, row |-> 0, col |-> 0]
    ELSE LET i == Min(MatchingRows(d, addr))
             col == addr - row_addr_map(i)
         IN  [found |-> TRUE, row |-> i,
              col |-> IF col >= d.cols THEN d.cols - 1 ELSE col]

lcd_set_cursor(d, addr) ==
    LET p == ddram_addr_to_position(d, addr)
    IN  IF p.found
        THEN [d EXCEPT !.current_row = p.row, !.current_col = p.col]
        ELSE d

\* Mutant of lcd_advance_cursor: the row wraps in single-line mode too
lcd_advance_cursor_rowwrap(d, u) ==
    IF d.increment_mode
    THEN LET col == d.current_col + 1
         IN  IF col >= d.cols
             THEN Res([d EXCEPT !.current_col = 0,
                                !.current_row = CRem(d.current_row + 1, d.rows, u.int)],
                      d.rows = 0)
             ELSE Res([d EXCEPT !.current_col = col], FALSE)
    ELSE LET col == d.current_col - 1
         IN  IF col < 0
             THEN Res([d EXCEPT !.current_col = d.cols - 1,
                                !.current_row =
                                    CRem(d.current_row - 1 + d.rows, d.rows, u.int)],
                      d.rows = 0)
             ELSE Res([d EXCEPT !.current_col = col], FALSE)

lcd_advance_cursor(d, u) ==
    IF d.increment_mode
    THEN LET col == d.current_col + 1
         IN  IF ~d.multi_line_mode
             THEN Res([d EXCEPT !.current_col = IF col >= d.cols THEN 0 ELSE col],
                      FALSE)
             ELSE IF col >= d.cols
                  THEN Res([d EXCEPT !.current_col = 0,
                                     !.current_row = CRem(d.current_row + 1, d.rows, u.int)],
                           d.rows = 0)
                  ELSE Res([d EXCEPT !.current_col = col], FALSE)
    ELSE LET col == d.current_col - 1
         IN  IF col < 0
             THEN IF ~d.multi_line_mode
                  THEN Res([d EXCEPT !.current_col = d.cols - 1], FALSE)
                  ELSE Res([d EXCEPT !.current_col = d.cols - 1,
                                     !.current_row =
                                         CRem(d.current_row - 1 + d.rows, d.rows, u.int)],
                           d.rows = 0)
             ELSE Res([d EXCEPT !.current_col = col], FALSE)

-----------------------------------------------------------------------------
(* Command handlers                                                        *)

\* Mutant of lcd_handle_clear_command: the buffer is not zeroed
lcd_handle_clear_command_keep(d) ==
    [d EXCEPT !.current_row = 0,
              !.current_col = 0,
              !.display_shift_offset = 0]

lcd_handle_clear_command(d) ==
    [d EXCEPT !.buffer = [i \in BufferIndexes(d) |-> 0],
              !.current_row = 0,
              !.current_col = 0,
              !.display_shift_offset = 0]

\* Mutant of lcd_handle_home_command: the buffer is zeroed as by clear
lcd_handle_home_command_wipe(d) ==
    [d EXCEPT !.buffer = [i \in BufferIndexes(d) |-> 0],
              !.current_row = 0,
              !.current_col = 0,
              !.display_shift_offset = 0]

lcd_handle_home_command(d) ==
    [d EXCEPT !.current_row = 0,
              !.current_col = 0,
              !.display_shift_offset = 0]

\* Mutant of lcd_handle_entry_mode_command: the shift bit (S, bit 0) is
\* taken for the direction bit (I/D, bit 1)
lcd_handle_entry_mode_command_shiftbit(d, cmd) ==
    [d EXCEPT !.increment_mode = BitAnd(cmd, 1) # 0]

lcd_handle_entry_mode_command(d, cmd) ==
    [d EXCEPT !.increment_mode = BitAnd(cmd, 2) # 0]

lcd_handle_display_control_command(d, cmd) ==
    [d EXCEPT !.display_on = BitAnd(cmd, 4) # 0]

\* Mutant of lcd_handle_function_set_command: the font bit (F, bit 2) is
\* taken for the line bit (N, bit 3)
lcd_handle_function_set_command_fontbit(d, cmd) ==
    [d EXCEPT !.multi_line_mode = BitAnd(cmd, 4) # 0]

lcd_handle_function_set_command(d, cmd) ==
    [d EXCEPT !.multi_line_mode = BitAnd(cmd, 8) # 0]

\* lcd_handle_shift_command, shift_display branch: step and clamp
ShiftDisplay(d, shift_right) ==
    LET o1 == IF shift_right THEN d.display_shift_offset + 1
              ELSE d.display_shift_offset - 1
        o2 == IF o1 < 0 - d.cols THEN 0 - d.cols ELSE o1
        o3 == IF o2 > d.cols THEN d.cols ELSE o2
    IN  [d EXCEPT !.display_shift_offset = o3]

\* Mutant of MoveCursor: in single-line mode the row stays on a wrap, as in
\* lcd_advance_cursor
MoveCursor_samerow(d, shift_right, u) ==
    IF shift_right
    THEN LET col == d.current_col + 1
         IN  IF col >= d.cols
             THEN IF ~d.multi_line_mode
                  THEN Res([d EXCEPT !.current_col = 0], FALSE)
                  ELSE Res([d EXCEPT !.current_col = 0,
                                     !.current_row = CRem(d.current_row + 1, d.rows, u.int)],
                           d.rows = 0)
             ELSE Res([d EXCEPT !.current_col = col], FALSE)
    ELSE LET col == d.current_col - 1
         IN  IF col < 0
             THEN IF ~d.multi_line_mode
                  THEN Res([d EXCEPT !.current_col = d.cols - 1], FALSE)
                  ELSE Res([d EXCEPT !.current_col = d.cols - 1,
                                     !.current_row =
                                         CRem(d.current_row - 1 + d.rows, d.rows, u.int)],
                           d.rows = 0)
             ELSE Res([d EXCEPT !.current_col = col], FALSE)

\* lcd_handle_shift_command, cursor branch: the row always wraps
MoveCursor(d, shift_right, u) ==
    IF shift_right
    THEN LET col == d.current_col + 1
         IN  IF col >= d.cols
             THEN Res([d EXCEPT !.current_col = 0,
                                !.current_row = CRem(d.current_row + 1, d.rows, u.int)],
                      d.rows = 0)
             ELSE Res([d EXCEPT !.current_col = col], FALSE)
    ELSE LET col == d.current_col - 1
         IN  IF col < 0
             THEN Res([d EXCEPT !.current_col = d.cols - 1,
                                !.current_row =
                                    CRem(d.current_row - 1 + d.rows, d.rows, u.int)],
                      d.rows = 0)
             ELSE Res([d EXCEPT !.current_col = col], FALSE)

lcd_handle_shift_command(d, cmd, u) ==
    LET shift_display == BitAnd(cmd, 8) # 0
        shift_right == BitAnd(cmd, 4) # 0
    IN  IF shift_display
        THEN Res(ShiftDisplay(d, shift_right), FALSE)
        ELSE MoveCursor(d, shift_right, u)

\* Mutant of lcd_handle_set_cursor_command: the translated row is used in
\* single-line mode too
lcd_handle_set_cursor_command_anyrow(d, cmd) ==
    lcd_set_cursor(d, BitAnd(cmd, LCD_SET_CURSOR_MASK))

lcd_handle_set_cursor_command(d, cmd) ==
    LET addr == BitAnd(cmd, LCD_SET_CURSOR_MASK)
    IN  IF ~d.multi_line_mode
        THEN LET p == ddram_addr_to_position(d, addr)
             IN  IF p.found
                 THEN [d EXCEPT !.current_row = 0, !.current_col = p.col]
                 ELSE d
        ELSE lcd_set_cursor(d, addr)

\* Mutant of lcd_handle_command_write: Home reports the display updated
lcd_handle_command_write_homeprints(d, u) ==
    LET cmd == d.reg.data
        done(dd, ub, updated, op) ==
            [lcd |-> dd, ub |-> ub, updated |-> updated, op |-> op]
    IN  IF d.reg.rw
        THEN done(d, FALSE, FALSE, "read")
        ELSE IF cmd = LCD_CMD_CLEAR
        THEN done(lcd_handle_clear_command(d), FALSE, TRUE, "clear")
        ELSE IF cmd = LCD_CMD_HOME
        THEN done(lcd_handle_home_command(d), FALSE, TRUE, "home")
        ELSE IF BitAnd(cmd, 252) = LCD_CMD_ENTRY_MODE_BASE
        THEN done(lcd_handle_entry_mode_command(d, cmd), FALSE, FALSE, "entry_mode")
        ELSE IF BitAnd(cmd, 248) = LCD_CMD_DISPLAY_CONTROL_BASE
        THEN done(lcd_handle_display_control_command(d, cmd), FALSE, TRUE,
                  "display_control")
        ELSE IF BitAnd(cmd, 224) = LCD_CMD_FUNCTION_SET_BASE
        THEN done(lcd_handle_function_set_command(d, cmd), FALSE, TRUE, "function_set")
        ELSE IF BitAnd(cmd, 252) = LCD_CMD_SHIFT_BASE
        THEN LET r == lcd_handle_shift_command(d, cmd, u)
             IN  done(r.lcd, r.ub, TRUE, "shift")
        ELSE IF BitAnd(cmd, LCD_SET_CURSOR_CMD) # 0
        THEN done(lcd_handle_set_cursor_command(d, cmd), FALSE, FALSE, "set_cursor")
        ELSE done(d, FALSE, FALSE, "ignored")

\* Mutant of lcd_handle_command_write: the shift rule masks the S/C and R/L
\* bits away (0xF0), as the HD44780 does
lcd_handle_command_write_shiftmask(d, u) ==
    LET cmd == d.reg.data
        done(dd, ub, updated, op) ==
            [lcd |-> dd, ub |-> ub, updated |-> updated, op |-> op]
    IN  IF d.reg.rw
        THEN done(d, FALSE, FALSE, "read")
        ELSE IF cmd = LCD_CMD_CLEAR
        THEN done(lcd_handle_clear_command(d), FALSE, TRUE, "clear")
        ELSE IF cmd = LCD_CMD_HOME
        THEN done(lcd_handle_home_command(d), FALSE, FALSE, "home")
        ELSE IF BitAnd(cmd, 252) = LCD_CMD_ENTRY_MODE_BASE
        THEN done(lcd_handle_entry_mode_command(d, cmd), FALSE, FALSE, "entry_mode")
        ELSE IF BitAnd(cmd, 248) = LCD_CMD_DISPLAY_CONTROL_BASE
        THEN done(lcd_handle_display_control_command(d, cmd), FALSE, TRUE,
                  "display_control")
        ELSE IF BitAnd(cmd, 224) = LCD_CMD_FUNCTION_SET_BASE
        THEN done(lcd_handle_function_set_command(d, cmd), FALSE, TRUE, "function_set")
        ELSE IF BitAnd(cmd, 240) = LCD_CMD_SHIFT_BASE
        THEN LET r == lcd_handle_shift_command(d, cmd, u)
             IN  done(r.lcd, r.ub, TRUE, "shift")
        ELSE IF BitAnd(cmd, LCD_SET_CURSOR_CMD) # 0
        THEN done(lcd_handle_set_cursor_command(d, cmd), FALSE, FALSE, "set_cursor")
        ELSE done(d, FALSE, FALSE, "ignored")

\* lcd_handle_command_write: the decoder; updated is the return value
\* (display_updated), op names the branch taken
lcd_handle_command_write(d, u) ==
    LET cmd == d.reg.data
        done(dd, ub, updated, op) ==
            [lcd |-> dd, ub |-> ub, updated |-> updated, op |-> op]
    IN  IF d.reg.rw
        THEN done(d, FALSE, FALSE, "read")
        ELSE IF cmd = LCD_CMD_CLEAR
        THEN done(lcd_handle_clear_command(d), FALSE, TRUE, "clear")
        ELSE IF cmd = LCD_CMD_HOME
        THEN done(lcd_handle_home_command(d), FALSE, FALSE, "home")
        ELSE IF BitAnd(cmd, 252) = LCD_CMD_ENTRY_MODE_BASE
        THEN done(lcd_handle_entry_mode_command(d, cmd), FALSE, FALSE, "entry_mode")
        ELSE IF BitAnd(cmd, 248) = LCD_CMD_DISPLAY_CONTROL_BASE
        THEN done(lcd_handle_display_control_command(d, cmd), FALSE, TRUE,
                  "display_control")
        ELSE IF BitAnd(cmd, 224) = LCD_CMD_FUNCTION_SET_BASE
        THEN done(lcd_handle_function_set_command(d, cmd), FALSE, TRUE, "function_set")
        ELSE IF BitAnd(cmd, 252) = LCD_CMD_SHIFT_BASE
        THEN LET r == lcd_handle_shift_command(d, cmd, u)
             IN  done(r.lcd, r.ub, TRUE, "shift")
        ELSE IF BitAnd(cmd, LCD_SET_CURSOR_CMD) # 0
        THEN done(lcd_handle_set_cursor_command(d, cmd), FALSE, FALSE, "set_cursor")
        ELSE done(d, FALSE, FALSE, "ignored")

\* Mutant of lcd_handle_data_write: the byte is stored after the cursor has
\* advanced
lcd_handle_data_write_late(d, u) ==
    IF d.reg.rw
    THEN [lcd |-> d, ub |-> FALSE, updated |-> FALSE, op |-> "read"]
    ELSE IF d.current_col < d.cols
    THEN LET r == lcd_advance_cursor(d, u)
             index == r.lcd.current_row * d.cols + r.lcd.current_col
             inside == index \in BufferIndexes(d)
             stored == IF inside
                       THEN [r.lcd EXCEPT !.buffer[index] = d.reg.data]
                       ELSE r.lcd
         IN  [lcd |-> stored, ub |-> r.ub \/ ~inside, updated |-> TRUE, op |-> "data"]
    ELSE [lcd |-> d, ub |-> FALSE, updated |-> FALSE, op |-> "data_dropped"]

\* lcd_handle_data_write; a store outside the buffer is undefined and is
\* taken to land outside the lcd_data_t and its buffer
lcd_handle_data_write(d, u) ==
    IF d.reg.rw
    THEN [lcd |-> d, ub |-> FALSE, updated |-> FALSE, op |-> "read"]
    ELSE IF d.current_col < d.cols
    THEN LET index == d.current_row * d.cols + d.current_col
             inside == index \in BufferIndexes(d)
             stored == IF inside
                       THEN [d EXCEPT !.buffer[index] = d.reg.data]
                       ELSE d
             r == lcd_advance_cursor(stored, u)
         IN  [lcd |-> r.lcd, ub |-> r.ub \/ ~inside, updated |-> TRUE, op |-> "data"]
    ELSE [lcd |-> d, ub |-> FALSE, updated |-> FALSE, op |-> "data_dropped"]

\* Mutant of lcd_execute_command: triggered by the level of enable, not by
\* its falling edge
lcd_execute_command_level(d, u) ==
    IF ~d.reg.e
    THEN LET r == IF d.reg.rs
                  THEN lcd_handle_data_write(d, u)
                  ELSE lcd_handle_command_write(d, u)
             p == lcd_print(r.lcd, u)
         IN  IF r.updated
             THEN [lcd |-> r.lcd, ub |-> r.ub \/ p.ub, op |-> r.op, out |-> <<p.frame>>]
             ELSE [lcd |-> r.lcd, ub |-> r.ub, op |-> r.op, out |-> <<>>]
    ELSE [lcd |-> d, ub |-> FALSE, op |-> "no_edge", out |-> <<>>]

\* lcd_execute_command: out is what lcd_print wrote, op what was executed
lcd_execute_command(d, u) ==
    IF d.reg_prev.e /\ ~d.reg.e
    THEN LET r == IF d.reg.rs
                  THEN lcd_handle_data_write(d, u)
                  ELSE lcd_handle_command_write(d, u)
             p == lcd_print(r.lcd, u)
         IN  IF r.updated
             THEN [lcd |-> r.lcd, ub |-> r.ub \/ p.ub, op |-> r.op, out |-> <<p.frame>>]
             ELSE [lcd |-> r.lcd, ub |-> r.ub, op |-> r.op, out |-> <<>>]
    ELSE [lcd |-> d, ub |-> FALSE, op |-> "no_edge", out |-> <<>>]

\* lcd_write32: one write of val to bus address a
lcd_write32(d, a, val, u) ==
    LET offset == a - d.addr
        value == RegOfValue(val)
    IN  IF offset = REGISTER_DATA
        THEN [lcd |-> [d EXCEPT !.reg.data = U8(val)],
              ub |-> FALSE, op |-> "none", out |-> <<>>]
        ELSE IF offset = REGISTER_CONTROL
        THEN lcd_execute_command(
                 [d EXCEPT !.reg_prev = d.reg,
                           !.reg.rs = value.rs,
                           !.reg.rw = value.rw,
                           !.reg.e = value.e], u)
        ELSE [lcd |-> d, ub |-> FALSE, op |-> "none", out |-> <<>>]

-----------------------------------------------------------------------------
(* The bus master                                                          *)

\* Bounds of the explored geometries (columns, rows, cells of the buffer;
\* fewer cells where the host also writes characters) and of budgeted runs
MaxColsTried == 2
MaxRowsTried == 3
MaxCells == 4
MaxTextCells == 3
MaxWrites == 9
MaxDecodeWrites == 7
MaxRenderCells == 2

\* Values an undefined expression may yield
Undefined == [int : {-1, 0, 1}, byte : {0, 65}]

\* What an lcd_reg_t that was never written may hold: any word.  Of reg only
\* e and data can be read before they are written (rs and rw are assigned by
\* the control write that reads them), and reg_prev is assigned before it is
\* read, so the model tries enable clear and set over the given data bytes.
Garbage(bytes) == [rs : {FALSE}, rw : {FALSE}, e : BOOLEAN, data : bytes]

\* The geometries tried: zero, small ones of at most n cells, and one past
\* each maximum
Geometries(n) ==
    {g \in ((0 .. MaxColsTried) \cup {LCD_MAX_COLS + 1})
              \X ((0 .. MaxRowsTried) \cup {LCD_MAX_ROWS + 1}) :
        GeometryAccepted(g[1], g[2]) => g[1] * g[2] <= n}

\* Commands only (rs = 0): function set on (40) and off (32), entry mode
\* decrement (4), cursor shift left (16), display shift right of the
\* HD44780 (28), set address 64 (192) and 40 (168)
HostCursor ==
    [data |-> {40, 32, 4, 16, 28, 192, 168}, ctl |-> {0, 4},
     other |-> {7}, geoms |-> Geometries(MaxCells), phys |-> {TRUE, FALSE},
     garbage |-> {0, 1}, budget |-> -1, watch |-> "none"]

\* Characters and commands, reads (rw = 1) and a control word with bits
\* above the triple set (260): clear (1), home (2), 'A' (65; 321 is 65
\* after the cast to uint8_t)
HostText ==
    [data |-> {1, 2, 65, 321}, ctl |-> {0, 1, 2, 4, 260},
     other |-> {7}, geoms |-> Geometries(MaxTextCells), phys |-> {TRUE},
     garbage |-> {0, 1}, budget |-> -1, watch |-> "none"]

\* Characters in both entry modes and line modes: entry mode decrement (4),
\* function set on (40), 'A' (65)
HostWrap ==
    [data |-> {4, 40, 65}, ctl |-> {0, 1, 4},
     other |-> {7}, geoms |-> Geometries(MaxTextCells), phys |-> {TRUE},
     garbage |-> {0}, budget |-> -1, watch |-> "none"]

\* The round trip: function set on (40), display on (12), 'A' (65) and one
\* set address: of row 1 (192) on two rows, of row 2 (148) on the most rows
HostRoundTrip(setaddr, rows) ==
    [data |-> {40, 12, setaddr, 65}, ctl |-> {0, 1, 4},
     other |-> {7}, geoms |-> {<<1, rows>>},
     phys |-> {TRUE}, garbage |-> {0}, budget |-> -1, watch |-> "trip"]

\* The example scenario of the 16 x 2 device, among all runs of at most
\* MaxWrites writes of its values
HostScenario ==
    [data |-> {56, 12, 65}, ctl |-> {0, 1, 4, 5},
     other |-> {7}, geoms |-> {<<16, 2>>}, phys |-> {TRUE},
     garbage |-> {0, 1}, budget |-> MaxWrites, watch |-> "scenario"]

\* Every command byte after a short setup, on the widest two-row and the
\* tallest device of MaxCells cells: runs of at most MaxDecodeWrites writes
\* of function set on (40), entry mode decrement (4) and cursor shift left
\* (16), where the data write that leaves room for just one command (data,
\* enable high, enable low) may write any byte
HostDecode ==
    [data |-> {40, 4, 16}, ctl |-> {0, 4},
     other |-> {7}, geoms |-> {<<MaxCells \div 2, 2>>, <<1, LCD_MAX_ROWS>>},
     phys |-> {TRUE}, garbage |-> {0}, budget |-> MaxDecodeWrites, watch |-> "decode"]

\* The register writes of one command
OneCommand == <<"data", "enable high", "enable low">>

\* The values the bus master may write to the data register now
DataValues(h) ==
    IF h.watch = "decode" /\ h.budget = Len(OneCommand)
    THEN 0 .. 255
    ELSE h.data

\* The display switched on (12) over characters ('A', 65) in both line
\* modes (function set on, 40), and cleared (1), on every small geometry
HostRender ==
    [data |-> {12, 40, 65, 1}, ctl |-> {0, 1, 4},
     other |-> {7}, geoms |-> Geometries(MaxRenderCells), phys |-> {TRUE},
     garbage |-> {0}, budget |-> -1, watch |-> "none"]

NoTrip == [stage |-> 0, addr |-> 0, v |-> 0]

InitWith(hosts) ==
    /\ status = "unconfigured"
    /\ lcd = NoData
    /\ out = <<>>
    /\ executed = "none"
    /\ pre = [row |-> 0, col |-> 0, blank |-> TRUE]
    /\ run = 0
    /\ progress = -1
    /\ trip = NoTrip
    /\ parm = [cols |-> 0, rows |-> 0]
    /\ armed = FALSE
    /\ host \in hosts

Init == InitWith({HostCursor, HostText, HostWrap})

-----------------------------------------------------------------------------
(* Actions                                                                 *)

\* dlcd_init with parameters cols, rows, addr; ok1 and ok2 are what
\* phys_range answers for addr and addr + REGISTER_LIMIT; g and gp are
\* what the allocation held where reg and reg_prev lie
dlcd_init(cols, rows, addr, ok1, ok2, g, gp) ==
    IF GeometryAccepted(cols, rows) /\ ok1 /\ ok2
    THEN [ok |-> TRUE, lcd |-> InitData(cols, rows, addr, g, gp)]
    ELSE [ok |-> FALSE, lcd |-> NoData]

Construct ==
    /\ status = "unconfigured"
    /\ \E geom \in host.geoms, ok1 \in host.phys, ok2 \in host.phys,
          g \in Garbage(host.garbage), gp \in Garbage({0}) :
           LET r == dlcd_init(geom[1], geom[2], 4096, ok1, ok2, g, gp)
           IN  /\ status' = IF r.ok THEN "ready" ELSE "rejected"
               /\ lcd' = r.lcd
               /\ parm' = [cols |-> geom[1], rows |-> geom[2]]
               /\ progress' = IF r.ok /\ host.watch = "scenario" THEN 0 ELSE -1
    /\ UNCHANGED <<out, executed, pre, run, trip, armed, host>>

IsBlank(d) == \A i \in BufferIndexes(d) : d.buffer[i] = 0

\* HD44780 cursor/display shift, S/C = 1 (display) and R/L = 1 (right):
\* 0001 11xx
IsDisplayShiftRight(cmd) == BitAnd(cmd, 252) = 28

\* The example scenario: <<register offset, value>> of each write
Scenario ==
    << <<1, 4>>, <<0, 56>>, <<1, 0>>,
       <<1, 4>>, <<0, 12>>, <<1, 0>>,
       <<1, 5>>, <<0, 65>>, <<1, 1>> >>

\* The round trip after a write that executed op with the register r:
\* 1 after a set address, 2 after a data write of a non-zero byte that
\* follows it, 3 after a set address to the same address that follows that
TripAfter(t, op, r) ==
    IF op \in {"none", "no_edge"} THEN t
    ELSE IF ~r.rs /\ ~r.rw /\ r.data >= 128
    THEN IF t.stage = 2 /\ t.addr = r.data - 128
         THEN [t EXCEPT !.stage = 3]
         ELSE [stage |-> 1, addr |-> r.data - 128, v |-> 0]
    ELSE IF r.rs /\ ~r.rw /\ t.stage = 1 /\ r.data # 0
    THEN [t EXCEPT !.stage = 2, !.v = r.data]
    ELSE NoTrip

\* The undefined values a write can meet: all of Undefined when the write
\* executes undefined behaviour, and one (never used) when it does not
UndefinedFor(d, a, val) ==
    LET u0 == [int |-> 0, byte |-> 0]
    IN  IF lcd_write32(d, a, val, u0).ub THEN Undefined ELSE {u0}

\* One register write, handled to completion
Write(offset, val) ==
    /\ status = "ready"
    /\ host.budget # 0
    /\ \E u \in UndefinedFor(lcd, lcd.addr + offset, val) :
        LET r == lcd_write32(lcd, lcd.addr + offset, val, u)
        IN  \E crash \in (IF r.ub THEN BOOLEAN ELSE {FALSE}) :
              /\ status' = IF crash THEN "crashed" ELSE "ready"
              /\ lcd' = IF crash THEN lcd ELSE r.lcd
              /\ out' = IF crash THEN <<>> ELSE r.out
              /\ executed' = r.op
              /\ run' = IF r.op \in {"none", "no_edge"} THEN run
                        ELSE IF ~r.lcd.reg.rs /\ ~r.lcd.reg.rw
                                /\ IsDisplayShiftRight(r.lcd.reg.data)
                        THEN (IF run > lcd.cols THEN run ELSE run + 1)
                        ELSE 0
              /\ trip' = IF host.watch = "trip"
                         THEN TripAfter(trip, r.op, r.lcd.reg)
                         ELSE NoTrip
    /\ pre' = [row |-> lcd.current_row, col |-> lcd.current_col, blank |-> IsBlank(lcd)]
    /\ progress' = IF progress >= 0 /\ progress < Len(Scenario)
                      /\ Scenario[progress + 1] = <<offset, val>>
                   THEN progress + 1 ELSE -1
    /\ armed' = (armed \/ (offset = REGISTER_CONTROL /\ RegOfValue(val).e))
    /\ host' = IF host.budget > 0 THEN [host EXCEPT !.budget = @ - 1] ELSE host
    /\ UNCHANGED parm

WriteData == \E val \in DataValues(host) : Write(REGISTER_DATA, val)

WriteControl == \E val \in host.ctl : Write(REGISTER_CONTROL, val)

WriteOther ==
    \E offset \in 2 .. (REGISTER_LIMIT - 1), val \in host.other : Write(offset, val)

Next == Construct \/ WriteData \/ WriteControl \/ WriteOther

Spec == Init /\ [][Next]_vars

SpecRoundTrip ==
    InitWith({HostRoundTrip(192, 2), HostRoundTrip(148, MaxRowsTried)}) /\ [][Next]_vars

SpecScenario == InitWith({HostScenario}) /\ [][Next]_vars

SpecRender == InitWith({HostRender, HostCursor, HostText}) /\ [][Next]_vars

SpecDecode == InitWith({HostDecode}) /\ [][Next]_vars

-----------------------------------------------------------------------------
(* Vocabulary of the properties                                            *)

Ready == status = "ready"

\* The geometry is one the data model allows
ValidGeometry ==
    lcd.rows \in 1 .. LCD_MAX_ROWS /\ lcd.cols \in 1 .. LCD_MAX_COLS

\* The last register write was a falling edge of enable and ran a handler
Executed == Ready /\ executed \notin {"none", "no_edge"}

\* ... as a command write (rs = 0, rw = 0) of a byte in S
ExecutedCommand(S) ==
    Executed /\ ~lcd.reg.rs /\ ~lcd.reg.rw /\ lcd.reg.data \in S

\* ... as a data write (rs = 1, rw = 0) that found the column in bounds
ExecutedDataWrite ==
    Executed /\ lcd.reg.rs /\ ~lcd.reg.rw /\ pre.col < lcd.cols

\* The fields a command or a data write can change
Fields(d) ==
    <<d.current_row, d.current_col, d.buffer, d.display_on, d.increment_mode,
      d.multi_line_mode, d.display_shift_offset>>

SetAddressBytes == 128 .. 255

\* The rows of the device whose DDRAM range [B, B + 40) holds addr
RowsHolding(addr) ==
    {i \in 0 .. (lcd.rows - 1) :
        row_addr_map(i) <= addr /\ addr < row_addr_map(i) + 40}

-----------------------------------------------------------------------------
C3_ClearBlanks ==
    ExecutedCommand({LCD_CMD_CLEAR})
        => /\ \A i \in BufferIndexes(lcd) : lcd.buffer[i] = 0
           /\ lcd.current_row = 0 /\ lcd.current_col = 0
           /\ lcd.display_shift_offset = 0

\* Clear ran over a written buffer with the cursor away from (0,0)
C3_Witness ==
    /\ ValidGeometry
    /\ ExecutedCommand({LCD_CMD_CLEAR})
    /\ ~pre.blank /\ pre.col # 0
    /\ IsBlank(lcd) /\ lcd.current_col = 0

C6_AdvanceCursor ==
    [][(status = "ready" /\ ExecutedDataWrite')
          => LET col == lcd.current_col
                 row == lcd.current_row
                 wrap == IF lcd.increment_mode THEN col + 1 >= lcd.cols ELSE col - 1 < 0
             IN  /\ lcd'.current_col =
                        IF lcd.increment_mode
                        THEN (IF wrap THEN 0 ELSE col + 1)
                        ELSE (IF wrap THEN lcd.cols - 1 ELSE col - 1)
                 /\ (~wrap \/ ~lcd.multi_line_mode) => lcd'.current_row = row
                 /\ (wrap /\ lcd.multi_line_mode /\ lcd.rows > 0)
                        => lcd'.current_row =
                               IF lcd.increment_mode
                               THEN (row + 1) % lcd.rows
                               ELSE (row - 1) % lcd.rows]_vars

\* A decrementing data write at column 0 of row 0 on several rows in
\* multi-line mode: the cursor is on the last row
C6_Witness ==
    /\ ValidGeometry
    /\ ExecutedDataWrite
    /\ ~lcd.increment_mode /\ lcd.multi_line_mode /\ lcd.rows > 1
    /\ pre.row = 0 /\ pre.col = 0
    /\ lcd.current_row = lcd.rows - 1 /\ lcd.current_col = lcd.cols - 1

(* C7: executing Home (0x02) puts the cursor at (0,0) and                  *)
(* display_shift_offset at 0, changes no buffer cell and none of           *)
(* display_on, increment_mode, multi_line_mode, and prints nothing.        *)
C7_HomeKeepsBuffer ==
    [][(status = "ready" /\ ExecutedCommand({LCD_CMD_HOME})')
          => /\ lcd'.current_row = 0 /\ lcd'.current_col = 0
             /\ lcd'.display_shift_offset = 0
             /\ lcd'.buffer = lcd.buffer
             /\ lcd'.display_on = lcd.display_on
             /\ lcd'.increment_mode = lcd.increment_mode
             /\ lcd'.multi_line_mode = lcd.multi_line_mode
             /\ out' = <<>>]_vars

\* Home ran over a written buffer with the cursor away from (0,0)
C7_Witness ==
    /\ ValidGeometry
    /\ ExecutedCommand({LCD_CMD_HOME})
    /\ pre.col # 0 /\ ~IsBlank(lcd)
    /\ lcd.current_row = 0 /\ lcd.current_col = 0

(* C10: on a device of 1..4 rows and 1..40 columns the cursor is always a  *)
(* cell of the buffer, 0 <= current_row < rows and 0 <= current_col <      *)
(* cols, and no write leaves the buffer (the process never meets undefined *)
(* behaviour).                                                             *)
C10_CursorInBuffer ==
    (status \in {"ready", "crashed"} /\ ValidGeometry)
        => /\ status = "ready"
           /\ lcd.current_row \in 0 .. (lcd.rows - 1)
           /\ lcd.current_col \in 0 .. (lcd.cols - 1)

\* An address 20 columns into row 2 was set on a narrower device: the
\* cursor is on the last column of row 2
C10_Witness ==
    /\ ValidGeometry
    /\ ExecutedCommand(SetAddressBytes) /\ lcd.multi_line_mode
    /\ lcd.rows > 2 /\ lcd.cols >= 1
    /\ lcd.reg.data - 128 - row_addr_map(2) >= lcd.cols
    /\ lcd.current_row = 2 /\ lcd.current_col = lcd.cols - 1

\* The frame lcd_print would print for the state (no byte of a valid
\* device's frame is read outside the buffer)
Frame(d) == lcd_print(d, [int |-> 0, byte |-> 0]).frame

(* C2: in multi-line mode with the display on and no shift, for every row  *)
(* r < rows and column c < cols: after Set DDRAM address B[r] + c and a    *)
(* data write of a non-zero byte v, buffer cell (r, c) holds v, and after  *)
(* the same Set DDRAM address again the cursor is at (r, c) and the frame  *)
(* shows v at row r, column c.                                             *)
C2_RoundTrip ==
    (Ready /\ ValidGeometry /\ trip.stage >= 2
        /\ lcd.multi_line_mode /\ lcd.display_on /\ lcd.display_shift_offset = 0)
        => \A r \in 0 .. (lcd.rows - 1), c \in 0 .. (lcd.cols - 1) :
              trip.addr = row_addr_map(r) + c
                  => /\ lcd.buffer[r * lcd.cols + c] = trip.v
                     /\ trip.stage = 3
                            => /\ lcd.current_row = r /\ lcd.current_col = c
                               /\ Frame(lcd)[r + 1][c + 1] = trip.v

(* C4: display_shift_offset never exceeds cols, and after more than cols   *)
(* display-shift-right commands (0001 11xx) executed in a row it equals    *)
(* cols.                                                                   *)
C4_ShiftRightClamps ==
    (Ready /\ ValidGeometry)
        => /\ lcd.display_shift_offset <= lcd.cols
           /\ run > lcd.cols => lcd.display_shift_offset = lcd.cols

(* C8: on a fresh 16 x 2 device, enable high / 0x38 / enable low sets      *)
(* multi_line_mode; then enable high / 0x0C / enable low sets display_on;  *)
(* then enable high with rs / 'A' / enable low with rs stores 'A' at       *)
(* buffer[0][0], leaves the cursor at (0,1) and prints a frame of 2 rows   *)
(* of 16 cells with 'A' at row 0, column 0 and blanks elsewhere.           *)
C8_Scenario ==
    (Ready /\ progress >= 3)
        => /\ lcd.multi_line_mode
           /\ progress >= 6 => lcd.display_on
           /\ progress = 9
                 => /\ lcd.buffer = [i \in 0 .. 31 |-> IF i = 0 THEN 65 ELSE 0]
                    /\ lcd.current_row = 0 /\ lcd.current_col = 1
                    /\ out = << [r \in 1 .. 2 |->
                                   [c \in 1 .. 16 |->
                                       IF r = 1 /\ c = 1 THEN 65 ELSE Blank]] >>

\* The nine writes of the scenario were made, in order, on the fresh device
C8_Witness ==
    /\ Ready /\ progress = 9
    /\ lcd.cols = 16 /\ lcd.rows = 2
    /\ executed = "data" /\ lcd.buffer[0] = 65

(* C9: every accepted device has 1 <= rows <= 4 and 1 <= cols <= 40, and   *)
(* dlcd_init called with a row or column count outside these bounds fails  *)
(* and creates no controller state.                                        *)
C9_GeometryValidated ==
    /\ status \in {"ready", "crashed"} => ValidGeometry
    /\ (status # "unconfigured"
           /\ (parm.rows \notin 1 .. 4 \/ parm.cols \notin 1 .. 40))
         => status = "rejected" /\ lcd = NoData

\* The command bytes no rule of the decoder matches, by value: 0x00, 0x03
\* and 0x14 .. 0x1F
UnmatchedBytes == {0, 3} \cup (20 .. 31)

\* The register write was a falling edge that ran one of the protocol
\* no-ops: a read request, an unmatched command byte, or a set address to
\* an address no configured row holds
NoOpStep ==
    /\ status = "ready" /\ Executed'
    /\ \/ lcd'.reg.rw
       \/ ~lcd'.reg.rs /\ lcd'.reg.data \in UnmatchedBytes
       \/ /\ ~lcd'.reg.rs /\ lcd'.reg.data \in SetAddressBytes
          /\ RowsHolding(lcd'.reg.data - 128) = {}

\* The protocol no-ops change no field and print nothing
NoOpsChangeNothing == NoOpStep => Fields(lcd') = Fields(lcd) /\ out' = <<>>

(* C11: on a falling edge a read request, a command byte no decoder rule   *)
(* matches and a set address to an address in no configured row's range    *)
(* leave cursor, buffer, display_on, increment_mode, multi_line_mode and   *)
(* display_shift_offset unchanged and print nothing; and no register write *)
(* puts the controller in an error state.                                  *)
C11_ProtocolNoOps ==
    [][/\ NoOpsChangeNothing
       /\ status = "ready" => status' # "crashed"]_vars

\* The part of C11 about the three no-ops alone
C11_NoOpsOnly == [][NoOpsChangeNothing]_vars

\* The cell (r, c) of the frame as a function of the state: blank when the
\* display is off or the row is not visible, else the buffer byte of column
\* c + display_shift_offset of the row when that column exists and the byte
\* is not zero, else blank
RenderedCell(d, r, c) ==
    LET visible_rows == IF d.multi_line_mode THEN d.rows ELSE 1
        source == c + d.display_shift_offset
    IN  IF ~d.display_on \/ r >= visible_rows THEN Blank
        ELSE IF source \in 0 .. (d.cols - 1) /\ d.buffer[r * d.cols + source] # 0
        THEN d.buffer[r * d.cols + source]
        ELSE Blank

\* The rows x cols frame as a function of the state
RenderedFrame(d) ==
    [r \in 1 .. d.rows |-> [c \in 1 .. d.cols |-> RenderedCell(d, r - 1, c - 1)]]

(* C12: a printed frame is a function of the state alone: rows x cols      *)
(* cells, all blank when display_on is false; otherwise the rows from      *)
(* (multi_line_mode ? rows : 1) on are blank and cell (r, c) of a visible  *)
(* row shows buffer[r][c + display_shift_offset] when that column is in    *)
(* [0, cols) and the byte is not zero, else blank; and the state the write *)
(* leaves is the state the frame was printed from.                         *)
C12_RenderPure == out # <<>> => out = <<RenderedFrame(lcd)>>

\* C12 on the devices of 1..4 rows and 1..40 columns
C12_RenderPureValid == (out # <<>> /\ ValidGeometry) => out = <<RenderedFrame(lcd)>>

\* Bit n of a byte, by division
Bit(cmd, n) == (cmd \div (2 ^ n)) % 2 = 1

\* The rule a command byte falls under, by value, in the decoder's order
RuleOf(cmd) ==
    IF cmd = 1 THEN "clear"
    ELSE IF cmd = 2 THEN "home"
    ELSE IF cmd \in 4 .. 7 THEN "entry_mode"
    ELSE IF cmd \in 8 .. 15 THEN "display_control"
    ELSE IF cmd \in 32 .. 63 THEN "function_set"
    ELSE IF cmd \in 16 .. 19 THEN "shift"
    ELSE IF cmd \in 128 .. 255 THEN "set_cursor"
    ELSE "ignored"

(* C13: a command byte executed with rs = 0, rw = 0 is handled by exactly  *)
(* the first matching rule of Clear (0x01), Home (0x02), Entry Mode        *)
(* (0x04..0x07), Display Control (0x08..0x0F), Function Set (0x20..0x3F),  *)
(* Shift (0x10..0x13), Set DDRAM Address (0x80..0xFF); Entry Mode sets     *)
(* increment_mode to bit 1, Display Control display_on to bit 2, Function  *)
(* Set multi_line_mode to bit 3, and each of the three changes nothing     *)
(* else.                                                                   *)
C13_Decoding ==
    [][(status = "ready" /\ ExecutedCommand(0 .. 255)')
          => LET cmd == lcd'.reg.data
             IN  /\ executed' = RuleOf(cmd)
                 /\ executed' = "entry_mode"
                        => Fields(lcd') = Fields([lcd EXCEPT !.increment_mode = Bit(cmd, 1)])
                 /\ executed' = "display_control"
                        => Fields(lcd') = Fields([lcd EXCEPT !.display_on = Bit(cmd, 2)])
                 /\ executed' = "function_set"
                        => Fields(lcd') = Fields([lcd EXCEPT !.multi_line_mode = Bit(cmd, 3)])]_vars

\* Entry mode 0x05 (decrement, with the shift bit set) ran with the cursor
\* moved away from row 0
C13_Witness ==
    /\ ValidGeometry
    /\ ExecutedCommand({5}) /\ executed = "entry_mode"
    /\ ~lcd.increment_mode
    /\ lcd.current_row # 0 /\ pre.row = lcd.current_row

\* The rules whose execution prints
PrintingRules == {"clear", "display_control", "function_set", "shift"}

(* C14: a frame is printed by a register write exactly when the write is a *)
(* falling edge that executes Clear, Display Control, Function Set, a      *)
(* Shift-group command or a data write that stored a byte; Home, Entry     *)
(* Mode, Set DDRAM Address, ignored bytes, read requests and dropped data  *)
(* writes print nothing, like every write that is no falling edge.         *)
C14_RenderWhen ==
    Ready => ((out # <<>>)
                <=> /\ Executed /\ ~lcd.reg.rw
                    /\ IF lcd.reg.rs THEN pre.col < lcd.cols
                       ELSE RuleOf(lcd.reg.data) \in PrintingRules)

\* A read request with Clear latched over a written buffer fell with
\* enable, and printed nothing
C14_Witness ==
    /\ ValidGeometry /\ Executed
    /\ lcd.reg.rw /\ ~lcd.reg.rs /\ lcd.reg.data = LCD_CMD_CLEAR
    /\ ~IsBlank(lcd) /\ out = <<>>

(* C15: an executed Set DDRAM Address with 7-bit address addr moves the    *)
(* cursor to (i, min(addr - B[i], cols - 1)) in multi-line mode, where i   *)
(* is the lowest row below the configured row count with                   *)
(* B[i] <= addr < B[i] + 40, and to row 0 with the same column in          *)
(* single-line mode; a row not configured is never selected (with no such  *)
(* i the cursor stays).                                                    *)
C15_AddressTranslation ==
    [][(status = "ready" /\ ExecutedCommand(SetAddressBytes)')
          => LET addr == lcd'.reg.data - 128
                 held == RowsHolding(addr)
                 i == CHOOSE x \in held : \A y \in held : x <= y
                 offset == addr - row_addr_map(i)
             IN  IF held = {}
                 THEN /\ lcd'.current_row = lcd.current_row
                      /\ lcd'.current_col = lcd.current_col
                 ELSE /\ lcd'.current_col =
                             IF offset < lcd.cols - 1 THEN offset ELSE lcd.cols - 1
                      /\ lcd'.current_row = IF lcd.multi_line_mode THEN i ELSE 0]_vars

\* In multi-line mode on three or more rows an address in the ranges of
\* row 0 and row 2 was set: the cursor is on row 0, on the last column
C15_Witness ==
    /\ ValidGeometry
    /\ ExecutedCommand(SetAddressBytes) /\ lcd.multi_line_mode
    /\ {0, 2} \subseteq RowsHolding(lcd.reg.data - 128)
    /\ lcd.current_row = 0 /\ lcd.current_col = lcd.cols - 1

\* The command bytes of the shift group that reach the shift handler
ShiftBytes == 16 .. 19

C17_SingleLineRowZero ==
    (Ready /\ ValidGeometry /\ ~lcd.multi_line_mode) => lcd.current_row = 0

\* The HD44780's display-shift bytes, 0001 1xxx
DisplayShiftBytes == 24 .. 31

(* C19: display_shift_offset is 0 in every state reachable from            *)
(* construction by register writes: no byte routed to the shift handler    *)
(* has bit 3 set, so the printed window is never panned.                   *)
C19_OffsetZero == lcd.display_shift_offset = 0

\* A display-shift byte was executed as a command on a device with columns
C19_Witness ==
    /\ ValidGeometry
    /\ ExecutedCommand(DisplayShiftBytes)
    /\ lcd.display_shift_offset = 0

\* What a register write may do to the buffer: an executed data write sets
\* the cell under the cursor held before it to the byte latched in the
\* data register and no other cell; Clear may change cells; any other
\* write changes none
BufferFrame ==
    IF ExecutedDataWrite'
    THEN LET index == lcd.current_row * lcd.cols + lcd.current_col
         IN  /\ index \in BufferIndexes(lcd)
             /\ lcd'.buffer = [i \in BufferIndexes(lcd) |->
                                  IF i = index THEN lcd.reg.data ELSE lcd.buffer[i]]
    ELSE ExecutedCommand({LCD_CMD_CLEAR})' \/ lcd'.buffer = lcd.buffer

(* C18: the buffer is changed only by Clear and by an executed data write; *)
(* a data write with rw = 0 and the cursor column in bounds changes        *)
(* exactly the cell at the cursor position held before the write, to the   *)
(* byte latched in the data register; data-register writes, control writes *)
(* that are no falling edge, all other commands and the offsets 2 and 3    *)
(* leave every cell unchanged.                                             *)
C18_BufferFrame ==
    [][(status = "ready" /\ status' = "ready") => BufferFrame]_vars

\* C18 on the devices of 1..4 rows and 1..40 columns
C18_BufferFrameValid ==
    [][(status = "ready" /\ status' = "ready" /\ ValidGeometry) => BufferFrame]_vars

(* C20: after dlcd_init no command and no data write executes before a    *)
(* control write with enable = 1 has been made (and then followed by one   *)
(* with enable = 0); the first control write executes nothing (stated of   *)
(* the devices of 1..4 rows and 1..40 columns).                            *)
C20_NoExecutionBeforeEnable == (Executed /\ ValidGeometry) => armed

=============================================================================
